---------------------------- MODULE Spec2Model ----------------------------
(***************************************************************************)
(* Fish-sTool: the patch-rule subsystem (parsePatches, escapeRegExp,       *)
(* applyCustomPatches, convertText) of the two converter modules, and the  *)
(* App component that drives them (syncFromCloud, the initialisation       *)
(* effect, handleConvert).                                                 *)
(*                                                                         *)
(* A JavaScript string is a sequence of one-character strings, so that     *)
(* split, trim, includes and replace are computed character by character.  *)
(***************************************************************************)
EXTENDS Integers, Sequences, FiniteSets, TLC

VARIABLES
    \* --- harness of the pure functions of the converter module
    patchStr,       \* the argument of parsePatches
    text,           \* the argument of applyCustomPatches
    patchRules,     \* a PatchRule[]: the value of parsePatches / argument of apply
    result,         \* the value of applyCustomPatches(text, patchRules)
    result2,        \* the value of applyCustomPatches(result, patchRules)
    fpc,            \* position of the harness: "start", "parsed", "applied", "twice"
    \* --- the App component
    inputText,      \* useState(''): the text to convert
    outputText,     \* useState(''): the converted text
    patches,        \* useState(''): the raw rule text (a JavaScript value)
    config,         \* useState(DEFAULT_CONFIG): the site configuration
    toasts,         \* useState([]): the notices shown
    hasInitialized, \* useRef(false)
    localStorage,   \* the two keys the initialisation effect reads
    OpenCC,         \* whether the global OpenCC is defined
    converterModule,\* the file './utils/converter' is: "part_000" or "part_001"
    pending,        \* the handleConvert calls suspended at await convertText
    sync            \* the syncFromCloud call that issued a request

fvars == <<patchStr, text, patchRules, result, result2, fpc>>

avars == <<inputText, outputText, patches, config, toasts, hasInitialized,
           localStorage, OpenCC, converterModule, pending, sync>>

vars == <<fvars, avars>>

(***************************************************************************)
(* Bounds of the model.                                                    *)
(***************************************************************************)
MaxRawLen  == 7     \* longest raw rule text SpecParse enumerates
MaxTextLen == 4     \* longest text SpecApply enumerates
MaxOldLen  == 2     \* longest old of a rule SpecApply enumerates
MaxNewLen  == 2     \* longest newVal of a rule SpecApply enumerates
MaxToasts  == 1     \* most notices shown at a time
MaxPending == 1     \* most handleConvert calls suspended at a time

(***************************************************************************)
(* Strings.                                                                *)
(***************************************************************************)
\* The characters of a TLA+ string literal, as a JavaScript string.
Chars(s) == [i \in 1..Len(s) |-> SubSeq(s, i, i)]

RECURSIVE SeqsUpTo(_, _)
\* All strings over alphabet A of length at most n.
SeqsUpTo(A, n) ==
    IF n = 0 THEN {<<>>}
    ELSE LET shorter == SeqsUpTo(A, n - 1)
         IN  shorter \cup {Append(s, c) : s \in {t \in shorter : Len(t) = n - 1}, c \in A}

RECURSIVE Join(_, _)
\* lines.join(sep)
Join(lines, sep) ==
    IF Len(lines) = 0 THEN <<>>
    ELSE IF Len(lines) = 1 THEN lines[1]
    ELSE lines[1] \o <<sep>> \o Join(Tail(lines), sep)

\* String.prototype.includes for a one-character needle
includes(s, c) == \E i \in 1..Len(s) : s[i] = c

\* str occurs in s at (1-based) position i
OccursAt(s, str, i) ==
    /\ i >= 1
    /\ i + Len(str) - 1 <= Len(s)
    /\ \A k \in 1..Len(str) : s[i + k - 1] = str[k]

\* String.prototype.includes: the empty string is included in every string
Contains(s, str) == \E i \in 1..(Len(s) + 1) : OccursAt(s, str, i)

RECURSIVE split(_, _)
\* String.prototype.split with a one-character separator: every occurrence
\* of the separator cuts, and the pieces between them are all returned.
split(s, sep) ==
    IF ~includes(s, sep) THEN <<s>>
    ELSE LET i == CHOOSE j \in 1..Len(s) :
                      s[j] = sep /\ \A k \in 1..(j - 1) : s[k] # sep
         IN  <<SubSeq(s, 1, i - 1)>> \o split(SubSeq(s, i + 1, Len(s)), sep)

\* The white space String.prototype.trim removes (the part the model uses).
WhiteSpace == {" ", "\t", "\r", "\n"}

RECURSIVE trimStart(_)
trimStart(s) ==
    IF Len(s) > 0 /\ s[1] \in WhiteSpace THEN trimStart(Tail(s)) ELSE s

RECURSIVE trimEnd(_)
trimEnd(s) ==
    IF Len(s) > 0 /\ s[Len(s)] \in WhiteSpace
    THEN trimEnd(SubSeq(s, 1, Len(s) - 1)) ELSE s

\* String.prototype.trim
trim(s) == trimEnd(trimStart(s))

(***************************************************************************)
(* parsePatches                                                            *)
(***************************************************************************)
\* The comparator of the sort: (a, b) => b.old.length - a.old.length
compareFn(a, b) == Len(b.old) - Len(a.old)

RECURSIVE insertSorted(_, _)
\* One step of a stable sort: r goes after every element that does not
\* compare greater than it (compareFn(x, r) <= 0 keeps x before r).
insertSorted(sorted, r) ==
    IF Len(sorted) = 0 THEN <<r>>
    ELSE IF compareFn(sorted[1], r) <= 0
         THEN <<sorted[1]>> \o insertSorted(Tail(sorted), r)
         ELSE <<r>> \o sorted

RECURSIVE insertSortedUnstable(_, _)
insertSortedUnstable(sorted, r) ==
    IF Len(sorted) = 0 THEN <<r>>
    ELSE IF compareFn(sorted[1], r) < 0
         THEN <<sorted[1]>> \o insertSortedUnstable(Tail(sorted), r)
         ELSE <<r>> \o sorted

RECURSIVE sortUnstable(_)
\* The sort with elements of equal old.length reversed (an unstable sort).
sortUnstable(rules) ==
    IF Len(rules) = 0 THEN <<>>
    ELSE insertSortedUnstable(sortUnstable(SubSeq(rules, 1, Len(rules) - 1)),
                              rules[Len(rules)])

\* No sort at all.
sortOmitted(rules) == rules

RECURSIVE sortRules(_)
\* Array.prototype.sort((a, b) => b.old.length - a.old.length): a stable
\* sort (ECMAScript 2019) by descending old.length.
sortRules(rules) ==
    IF Len(rules) = 0 THEN <<>>
    ELSE insertSorted(sortRules(SubSeq(rules, 1, Len(rules) - 1)),
                      rules[Len(rules)])

\* .map(line => { const [old, newVal] = line.split('='); ... }): the first
\* two pieces of line.split('='), each trimmed; a missing piece is ''.
lineToRule(line) ==
    LET parts == split(line, "=")
    IN  [old    |-> trim(parts[1]),
         newVal |-> IF Len(parts) >= 2 THEN trim(parts[2]) ELSE <<>>]

\* The rules of parsePatches before the sort: the lines with an '=', each
\* mapped to a rule, without the rules whose old is ''.
parseLines(str) ==
    LET lines    == split(str, "\n")
        withEq   == SelectSeq(lines, LAMBDA line : includes(line, "="))
        mapped   == [i \in 1..Len(withEq) |-> lineToRule(withEq[i])]
    IN  SelectSeq(mapped, LAMBDA rule : rule.old # <<>>)

parsePatches(str) == sortRules(parseLines(str))

(***************************************************************************)
(* escapeRegExp and the RegExp it is compiled into                         *)
(***************************************************************************)
\* The character class of escapeRegExp: [.*+?^${}()|[\]\\]
SpecialChars == {".", "*", "+", "?", "^", "$", "{", "}", "(", ")", "|", "[", "]", "\\"}

\* An escapeRegExp that returns its argument as it is.
escapeNothing(string) == string

\* An escapeRegExp whose character class lacks the dot.
RECURSIVE escapeAllButDot(_)
escapeAllButDot(string) ==
    IF Len(string) = 0 THEN <<>>
    ELSE (IF string[1] \in (SpecialChars \ {"."})
          THEN <<"\\", string[1]>> ELSE <<string[1]>>)
         \o escapeAllButDot(Tail(string))

RECURSIVE escapeRegExp(_)
\* string.replace(/[.*+?^${}()|[\]\\]/g, '\\$&'): a backslash before every
\* special character, every other character as it is.
escapeRegExp(string) ==
    IF Len(string) = 0 THEN <<>>
    ELSE (IF string[1] \in SpecialChars THEN <<"\\", string[1]>> ELSE <<string[1]>>)
         \o escapeRegExp(Tail(string))

\* The characters '.' does not match
LineTerminators == {"\n", "\r"}

RECURSIVE compile(_)
\* new RegExp(pattern): the atoms of the pattern, for the part of the
\* syntax the model reads: \c is the character c, '.' is any character
\* but a line terminator, any other character is itself, and an atom may
\* carry one of the greedy quantifiers * + ?.
compile(pattern) ==
    IF Len(pattern) = 0 THEN <<>>
    ELSE LET escaped == pattern[1] = "\\" /\ Len(pattern) >= 2
             used    == IF escaped THEN 2 ELSE 1
             atom    == IF escaped THEN [kind |-> "char", c |-> pattern[2]]
                        ELSE IF pattern[1] = "." THEN [kind |-> "any", c |-> "."]
                        ELSE [kind |-> "char", c |-> pattern[1]]
             quant   == IF Len(pattern) > used /\ pattern[used + 1] \in {"*", "+", "?"}
                        THEN pattern[used + 1] ELSE "1"
             rest    == SubSeq(pattern, used + (IF quant = "1" THEN 1 ELSE 2), Len(pattern))
         IN  <<[kind |-> atom.kind, c |-> atom.c, q |-> quant]>> \o compile(rest)

\* atom matches the character of str at i
atomAt(atom, str, i) ==
    /\ i <= Len(str)
    /\ \/ atom.kind = "any" /\ str[i] \notin LineTerminators
       \/ atom.kind = "char" /\ str[i] = atom.c

RECURSIVE matchHere(_, _, _)
\* The backtracking matcher: the position after the match of atoms that
\* starts at i, or 0 when there is none.
matchHere(atoms, str, i) ==
    IF Len(atoms) = 0 THEN i
    ELSE LET a    == atoms[1]
             rest == Tail(atoms)
         IN  CASE a.q = "1" ->
                    IF atomAt(a, str, i) THEN matchHere(rest, str, i + 1) ELSE 0
               [] a.q = "+" ->
                    IF atomAt(a, str, i)
                    THEN matchHere(<<[a EXCEPT !.q = "*"]>> \o rest, str, i + 1)
                    ELSE 0
               [] a.q = "*" ->
                    IF atomAt(a, str, i) /\ matchHere(atoms, str, i + 1) # 0
                    THEN matchHere(atoms, str, i + 1)
                    ELSE matchHere(rest, str, i)
               [] OTHER ->
                    IF atomAt(a, str, i) /\ matchHere(rest, str, i + 1) # 0
                    THEN matchHere(rest, str, i + 1)
                    ELSE matchHere(rest, str, i)

(***************************************************************************)
(* String.prototype.replace(regex, newSubstr) with the g flag              *)
(***************************************************************************)
\* The character U+0060 (grave accent), which a TLA+ string cannot hold.
Backtick == "U+0060"

RECURSIVE GetSubstitution(_, _, _, _)
\* The replacement text of one match (ECMAScript GetSubstitution, for a
\* pattern without capture groups): in newSubstr, $$ is '$', $& is the
\* matched text, $ with a grave accent the text before the match, $' the
\* text after it; a
\* '$' followed by anything else (a digit too: there is no group) is kept.
GetSubstitution(matched, str, position, newSubstr) ==
    IF Len(newSubstr) = 0 THEN <<>>
    ELSE IF newSubstr[1] = "$" /\ Len(newSubstr) >= 2
                /\ newSubstr[2] \in {"$", "&", Backtick, "'"}
         THEN (CASE newSubstr[2] = "$" -> <<"$">>
                 [] newSubstr[2] = "&" -> matched
                 [] newSubstr[2] = Backtick -> SubSeq(str, 1, position - 1)
                 [] OTHER -> SubSeq(str, position + Len(matched), Len(str)))
              \o GetSubstitution(matched, str, position,
                                 SubSeq(newSubstr, 3, Len(newSubstr)))
         ELSE <<newSubstr[1]>>
              \o GetSubstitution(matched, str, position, Tail(newSubstr))

RECURSIVE replaceFrom(_, _, _, _)
\* The scan of a global replace from position i: the leftmost match is
\* replaced and the scan goes on after it (one character further after an
\* empty match); unmatched characters are copied.
replaceFrom(str, atoms, newSubstr, i) ==
    IF i > Len(str) + 1 THEN <<>>
    ELSE LET e    == matchHere(atoms, str, i)
             copy == IF i <= Len(str) THEN <<str[i]>> ELSE <<>>
         IN  IF e = 0 THEN copy \o replaceFrom(str, atoms, newSubstr, i + 1)
             ELSE GetSubstitution(SubSeq(str, i, e - 1), str, i, newSubstr)
                  \o (IF e = i
                      THEN copy \o replaceFrom(str, atoms, newSubstr, i + 1)
                      ELSE replaceFrom(str, atoms, newSubstr, e))

\* str.replace(new RegExp(pattern, 'g'), newSubstr)
replaceGlobal(str, pattern, newSubstr) ==
    replaceFrom(str, compile(pattern), newSubstr, 1)

(***************************************************************************)
(* applyCustomPatches                                                      *)
(***************************************************************************)
\* The body of the forEach callback: result.replace(regex, rule.newVal)
applyRule(res, rule) == replaceGlobal(res, escapeRegExp(rule.old), rule.newVal)

RECURSIVE applyEachToText(_, _, _)
\* A forEach whose callback reads text instead of result.
applyEachToText(txt, rules, res) ==
    IF Len(rules) = 0 THEN res
    ELSE applyEachToText(txt, Tail(rules), applyRule(txt, rules[1]))

applyToOriginalText(txt, rules) == applyEachToText(txt, rules, txt)

RECURSIVE applyCustomPatches(_, _)
\* let result = text; patchRules.forEach(rule => result = result.replace(...))
applyCustomPatches(txt, rules) ==
    IF Len(rules) = 0 THEN txt
    ELSE applyCustomPatches(applyRule(txt, rules[1]), Tail(rules))

(***************************************************************************)
(* JavaScript values and JSON.parse                                        *)
(***************************************************************************)
JsUndefined  == [t |-> "undefined", s |-> <<>>, n |-> 0, kids |-> <<>>]
JsNull       == [t |-> "null", s |-> <<>>, n |-> 0, kids |-> <<>>]
JsString(str) == [t |-> "string", s |-> str, n |-> 0, kids |-> <<>>]
JsNumber(num) == [t |-> "number", s |-> <<>>, n |-> num, kids |-> <<>>]
JsBoolean(b) == [t |-> "boolean", s |-> <<>>, n |-> IF b THEN 1 ELSE 0, kids |-> <<>>]
\* kids: the elements of an array
JsArray(elems) == [t |-> "array", s |-> <<>>, n |-> 0, kids |-> elems]
\* kids: the members [k |-> key, v |-> value] of an object, in document order
JsObject(members) == [t |-> "object", s |-> <<>>, n |-> 0, kids |-> members]

\* ToBoolean
truthy(v) ==
    CASE v.t = "string" -> v.s # <<>>
      [] v.t \in {"number", "boolean"} -> v.n # 0
      [] v.t \in {"array", "object"} -> TRUE
      [] OTHER -> FALSE

Digits == {"0", "1", "2", "3", "4", "5", "6", "7", "8", "9"}

DigitValue(c) == CHOOSE d \in 0..9 : Chars("0123456789")[d + 1] = c

JsonFail == [ok |-> FALSE, v |-> JsUndefined, next |-> 0]

JsonWhiteSpace == {" ", "\t", "\r", "\n"}

RECURSIVE skipWs(_, _)
skipWs(s, i) == IF i <= Len(s) /\ s[i] \in JsonWhiteSpace THEN skipWs(s, i + 1) ELSE i

RECURSIVE digitsEnd(_, _)
\* the position after the run of digits that starts at i
digitsEnd(s, i) == IF i <= Len(s) /\ s[i] \in Digits THEN digitsEnd(s, i + 1) ELSE i

RECURSIVE numberOf(_)
numberOf(ds) ==
    IF Len(ds) = 0 THEN 0
    ELSE 10 * numberOf(SubSeq(ds, 1, Len(ds) - 1)) + DigitValue(ds[Len(ds)])

RECURSIVE jsonValue(_, _)
RECURSIVE jsonElements(_, _, _)
RECURSIVE jsonMembers(_, _, _)

\* The JSON value that starts at i (after white space): the value and the
\* position after it. The part of JSON read: strings without escapes,
\* non-negative integers, null, true, false, arrays and objects.
jsonValue(s, i0) ==
    LET i == skipWs(s, i0)
    IN  IF i > Len(s) THEN JsonFail
        ELSE CASE s[i] = "\"" ->
                    IF \E j \in (i + 1)..Len(s) : s[j] = "\""
                    THEN LET j == CHOOSE j \in (i + 1)..Len(s) :
                                      s[j] = "\"" /\ \A k \in (i + 1)..(j - 1) : s[k] # "\""
                         IN  IF \E k \in (i + 1)..(j - 1) : s[k] \in {"\\", "\n", "\r", "\t"}
                             THEN JsonFail
                             ELSE [ok |-> TRUE, v |-> JsString(SubSeq(s, i + 1, j - 1)),
                                   next |-> j + 1]
                    ELSE JsonFail
               [] s[i] \in Digits ->
                    LET e == digitsEnd(s, i)
                    IN  IF s[i] = "0" /\ e > i + 1 THEN JsonFail
                        ELSE [ok |-> TRUE, v |-> JsNumber(numberOf(SubSeq(s, i, e - 1))),
                              next |-> e]
               [] OccursAt(s, Chars("null"), i) ->
                    [ok |-> TRUE, v |-> JsNull, next |-> i + 4]
               [] OccursAt(s, Chars("true"), i) ->
                    [ok |-> TRUE, v |-> JsBoolean(TRUE), next |-> i + 4]
               [] OccursAt(s, Chars("false"), i) ->
                    [ok |-> TRUE, v |-> JsBoolean(FALSE), next |-> i + 5]
               [] s[i] = "[" ->
                    LET j == skipWs(s, i + 1)
                    IN  IF j <= Len(s) /\ s[j] = "]"
                        THEN [ok |-> TRUE, v |-> JsArray(<<>>), next |-> j + 1]
                        ELSE jsonElements(s, i + 1, <<>>)
               [] s[i] = "{" ->
                    LET j == skipWs(s, i + 1)
                    IN  IF j <= Len(s) /\ s[j] = "}"
                        THEN [ok |-> TRUE, v |-> JsObject(<<>>), next |-> j + 1]
                        ELSE jsonMembers(s, i + 1, <<>>)
               [] OTHER -> JsonFail

\* The elements of an array from i on, up to its ']'
jsonElements(s, i, acc) ==
    LET r == jsonValue(s, i)
        j == skipWs(s, r.next)
    IN  IF ~r.ok \/ j > Len(s) THEN JsonFail
        ELSE IF s[j] = "," THEN jsonElements(s, j + 1, Append(acc, r.v))
        ELSE IF s[j] = "]"
             THEN [ok |-> TRUE, v |-> JsArray(Append(acc, r.v)), next |-> j + 1]
        ELSE JsonFail

\* The members of an object from i on, up to its '}'
jsonMembers(s, i, acc) ==
    LET k == jsonValue(s, i)
        c == skipWs(s, k.next)
    IN  IF ~k.ok \/ k.v.t # "string" \/ c > Len(s) THEN JsonFail
        ELSE IF s[c] # ":" THEN JsonFail
        ELSE LET r == jsonValue(s, c + 1)
                 j == skipWs(s, r.next)
                 members == Append(acc, [k |-> k.v.s, v |-> r.v])
             IN  IF ~r.ok \/ j > Len(s) THEN JsonFail
                 ELSE IF s[j] = "," THEN jsonMembers(s, j + 1, members)
                 ELSE IF s[j] = "}"
                      THEN [ok |-> TRUE, v |-> JsObject(members), next |-> j + 1]
                 ELSE JsonFail

\* JSON.parse(text): [ok |-> FALSE] is the SyntaxError thrown
JSONparse(str) ==
    LET r == jsonValue(str, 1)
    IN  IF r.ok /\ skipWs(str, r.next) = Len(str) + 1
        THEN [ok |-> TRUE, v |-> r.v]
        ELSE [ok |-> FALSE, v |-> JsUndefined]

\* data has an own property key
hasProperty(data, key) ==
    data.t = "object" /\ \E i \in 1..Len(data.kids) : data.kids[i].k = key

\* data[key] for a value JSON.parse returned: the last member of that key
\* of an object, undefined for every other value but null, of which the
\* read throws a TypeError ([ok |-> FALSE]).
getProperty(data, key) ==
    IF data.t \in {"null", "undefined"} THEN [ok |-> FALSE, v |-> JsUndefined]
    ELSE IF hasProperty(data, key)
         THEN LET i == CHOOSE i \in 1..Len(data.kids) :
                           /\ data.kids[i].k = key
                           /\ \A j \in (i + 1)..Len(data.kids) : data.kids[j].k # key
              IN  [ok |-> TRUE, v |-> data.kids[i].v]
         ELSE [ok |-> TRUE, v |-> JsUndefined]

(***************************************************************************)
(* convertText                                                             *)
(***************************************************************************)
ConversionType == {"TO_SIMPLIFIED", "TO_TRADITIONAL"}

\* OpenCC.Converter({from, to})(text), of the OpenCC library: T stands for
\* a character of the Taiwan standard and S for the character of the
\* mainland standard it corresponds to; every other character is kept.
OpenCCConverter(from, to, str) ==
    [i \in 1..Len(str) |->
        IF from = "tw" /\ to = "cn" /\ str[i] = "T" THEN "S"
        ELSE IF from = "cn" /\ to = "tw" /\ str[i] = "S" THEN "T"
        ELSE str[i]]

\* The last two statements of convertText, the same in both modules
convertWithOpenCC(str, type) ==
    OpenCCConverter(IF type = "TO_SIMPLIFIED" THEN "tw" ELSE "cn",
                    IF type = "TO_SIMPLIFIED" THEN "cn" ELSE "tw", str)

\* The promise of an async function: fulfilled with value, or rejected
Fulfilled(value) == [ok |-> TRUE, value |-> value]
Rejected == [ok |-> FALSE, value |-> <<>>]

\* convertText of the module that reads the global through getOpenCC()
convertTextPart000(str, type, engine) ==
    IF str = <<>> THEN Fulfilled(<<>>)
    ELSE IF ~engine THEN Fulfilled(str)
    ELSE Fulfilled(convertWithOpenCC(str, type))

\* convertText of the module that names the global OpenCC itself: the
\* evaluation of an undefined global throws a ReferenceError
convertTextPart001(str, type, engine) ==
    IF str = <<>> THEN Fulfilled(<<>>)
    ELSE IF ~engine THEN Rejected
    ELSE Fulfilled(convertWithOpenCC(str, type))

\* convertText of './utils/converter'
convertText(module, str, type, engine) ==
    IF module = "part_000" THEN convertTextPart000(str, type, engine)
    ELSE convertTextPart001(str, type, engine)

(***************************************************************************)
(* App: state                                                              *)
(***************************************************************************)
DEFAULT_CONFIG == [gasUrl |-> JsNull]

Toast(type, message) == [type |-> type, message |-> message]

\* addToast(message, type)
addToast(list, message, type) == Append(list, Toast(type, message))

NoSync == [phase |-> "idle", silent |-> FALSE, url |-> <<>>, response |-> "none",
           text |-> <<>>]

\* The texts the user types as input
InputTexts == {<<>>, Chars(" "), Chars("Tx")}

\* The rule texts the user types
PatchTexts == {Chars("T=S\nx=y")}

GasUrl == Chars("//gas")

\* What the two keys of localStorage hold when the page is opened:
\* dream_cloud_patches is null or a string, dream_cloud_site_config is
\* absent (saved = FALSE) or the configuration admin's handleSave wrote.
StoredStates ==
    [dream_cloud_patches : {JsNull, JsString(Chars("x=z"))},
     dream_cloud_site_config :
        [saved : {TRUE}, gasUrl : {JsNull, JsString(<<>>), JsString(GasUrl)}]
        \cup {[saved |-> FALSE, gasUrl |-> JsNull]}]

\* The bodies the endpoint answers with
Bodies ==
    { Chars("x=y"),
      Chars("{\"patches\":\"x=y\"}"),
      Chars("{\"patches\":\"\"}"),
      Chars("{\"patches\":7}"),
      Chars("{\"patches\":[\"x=y\"]}"),
      Chars("{\"other\":\"x=y\"}"),
      Chars("null") }

FIdle ==
    /\ patchStr = <<>>
    /\ text = <<>>
    /\ patchRules = <<>>
    /\ result = <<>>
    /\ result2 = <<>>
    /\ fpc = "start"

\* The App as constructed: the initial values of useState and useRef
AppConstructed ==
    /\ inputText = <<>>
    /\ outputText = <<>>
    /\ patches = JsString(<<>>)
    /\ config = DEFAULT_CONFIG
    /\ toasts = <<>>
    /\ hasInitialized = FALSE
    /\ pending = {}
    /\ sync = NoSync

\* The App of the specifications of the pure functions, which leave it alone
AppIdle ==
    /\ AppConstructed
    /\ localStorage = [dream_cloud_patches |-> JsNull,
                       dream_cloud_site_config |-> [saved |-> FALSE, gasUrl |-> JsNull]]
    /\ OpenCC = FALSE
    /\ converterModule = "part_000"

Init ==
    /\ FIdle
    /\ AppConstructed
    /\ localStorage \in StoredStates
    /\ OpenCC \in BOOLEAN
    /\ converterModule \in {"part_000", "part_001"}

(***************************************************************************)
(* App: syncFromCloud                                                      *)
(***************************************************************************)
\* data.patches || text, after JSON.parse(text); text when either throws
finalPatchesOf(body) ==
    LET data == JSONparse(body)
    IN  IF ~data.ok THEN JsString(body)
        ELSE LET field == getProperty(data.v, Chars("patches"))
             IN  IF ~field.ok THEN JsString(body)
                 ELSE IF truthy(field.v) THEN field.v ELSE JsString(body)

\* A fetch that does not look at response.ok
phaseAfterFetchUnchecked(response) ==
    IF response = "threw" THEN "failed" ELSE "reading"

\* await fetch(url); if (!response.ok) throw ...: where the call goes on
phaseAfterFetch(response) ==
    IF response = "ok" THEN "reading" ELSE "failed"

\* The catch block of syncFromCloud
toastsAfterFailure(list, silent) ==
    IF silent THEN list ELSE addToast(list, "cloud download failed", "error")

\* targetUrl: string | null = config.gasUrl: the default value is taken
\* for an argument that is undefined, and for no other (null is kept).
urlOf(targetUrl) == IF targetUrl = JsUndefined THEN config.gasUrl ELSE targetUrl

\* syncFromCloud(targetUrl, silent) up to its first await
SyncFromCloud(targetUrl, silent) ==
    IF ~truthy(urlOf(targetUrl))
    THEN /\ silent \/ Len(toasts) < MaxToasts
         /\ toasts' = IF silent THEN toasts
                      ELSE addToast(toasts, "no cloud url configured", "info")
         /\ UNCHANGED sync
    ELSE /\ sync' = [phase |-> "fetching", silent |-> silent, url |-> urlOf(targetUrl).s,
                     response |-> "none", text |-> <<>>]
         /\ UNCHANGED toasts

\* The initialisation effect
Initialise ==
    /\ ~hasInitialized
    /\ patches' = IF truthy(localStorage.dream_cloud_patches)
                  THEN localStorage.dream_cloud_patches ELSE patches
    /\ IF localStorage.dream_cloud_site_config.saved
       THEN /\ config' = [gasUrl |-> localStorage.dream_cloud_site_config.gasUrl]
            /\ IF truthy(localStorage.dream_cloud_site_config.gasUrl)
               THEN SyncFromCloud(localStorage.dream_cloud_site_config.gasUrl, TRUE)
               ELSE UNCHANGED <<sync, toasts>>
       ELSE UNCHANGED <<config, sync, toasts>>
    /\ hasInitialized' = TRUE
    /\ UNCHANGED <<inputText, outputText, localStorage, OpenCC, converterModule, pending>>
    /\ UNCHANGED fvars

\* The manual download button: syncFromCloud(null, false)
ManualDownload ==
    /\ hasInitialized
    /\ SyncFromCloud(JsNull, FALSE)
    /\ UNCHANGED <<inputText, outputText, patches, config, hasInitialized, localStorage,
                   OpenCC, converterModule, pending>>
    /\ UNCHANGED fvars

\* await fetch(url) settles: a response that is ok, one that is not, or an
\* exception; the last two go to the catch block.
FetchSettles ==
    /\ sync.phase = "fetching"
    /\ \E response \in {"ok", "notOk", "threw"} :
          /\ sync' = [sync EXCEPT !.phase = phaseAfterFetch(response),
                                  !.response = response]
          /\ IF phaseAfterFetch(response) = "failed"
             THEN /\ sync.silent \/ Len(toasts) < MaxToasts
                  /\ toasts' = toastsAfterFailure(toasts, sync.silent)
             ELSE UNCHANGED toasts
    /\ UNCHANGED <<inputText, outputText, patches, config, hasInitialized, localStorage,
                   OpenCC, converterModule, pending>>
    /\ UNCHANGED fvars

\* await response.text() settles with the body: lines 50 to 59
TextArrives ==
    /\ sync.phase = "reading"
    /\ sync.silent \/ Len(toasts) < MaxToasts
    /\ \E body \in Bodies :
          /\ sync' = [sync EXCEPT !.phase = "succeeded", !.text = body]
          /\ patches' = finalPatchesOf(body)
    /\ toasts' = IF sync.silent THEN toasts
                 ELSE addToast(toasts, "cloud patches downloaded", "success")
    /\ UNCHANGED <<inputText, outputText, config, hasInitialized, localStorage,
                   OpenCC, converterModule, pending>>
    /\ UNCHANGED fvars

\* await response.text() rejects: the catch block
TextFails ==
    /\ sync.phase = "reading"
    /\ sync.silent \/ Len(toasts) < MaxToasts
    /\ sync' = [sync EXCEPT !.phase = "failed"]
    /\ toasts' = toastsAfterFailure(toasts, sync.silent)
    /\ UNCHANGED <<inputText, outputText, patches, config, hasInitialized, localStorage,
                   OpenCC, converterModule, pending>>
    /\ UNCHANGED fvars

(***************************************************************************)
(* App: handleConvert and the user's edits                                 *)
(***************************************************************************)
\* A handleConvert that reads the rule text of the moment convertText
\* settles instead of the one of its own render.
convertOutcomeOnCurrentPatches(c) ==
    IF ~c.converted.ok THEN [ok |-> FALSE, output |-> <<>>]
    ELSE IF patches.t # "string" THEN [ok |-> FALSE, output |-> <<>>]
    ELSE [ok |-> TRUE,
          output |-> applyCustomPatches(c.converted.value, parsePatches(patches.s))]

\* The rest of handleConvert once convertText has settled, for the call c:
\* the output and whether the try block ended without an exception.
\* parsePatches throws a TypeError when patches is no string.
convertOutcome(c) ==
    IF ~c.converted.ok THEN [ok |-> FALSE, output |-> <<>>]
    ELSE IF c.patches.t # "string" THEN [ok |-> FALSE, output |-> <<>>]
    ELSE [ok |-> TRUE,
          output |-> applyCustomPatches(c.converted.value, parsePatches(c.patches.s))]

\* handleConvert(type) up to await convertText(inputText, type)
ConvertStart ==
    /\ hasInitialized
    /\ \E type \in ConversionType :
          IF trim(inputText) = <<>>
          THEN /\ Len(toasts) < MaxToasts
               /\ toasts' = addToast(toasts, "enter some text first", "info")
               /\ UNCHANGED pending
          ELSE /\ Cardinality(pending) < MaxPending
               /\ pending' = pending \cup
                     {[type |-> type, inputText |-> inputText, patches |-> patches,
                       engine |-> OpenCC,
                       converted |-> convertText(converterModule, inputText, type, OpenCC)]}
               /\ UNCHANGED toasts
    /\ UNCHANGED <<inputText, outputText, patches, config, hasInitialized, localStorage,
                   OpenCC, converterModule, sync>>
    /\ UNCHANGED fvars

\* handleConvert after the await: lines 135 to 138
ConvertFinish ==
    /\ Len(toasts) < MaxToasts
    /\ \E c \in pending :
          /\ pending' = pending \ {c}
          /\ IF convertOutcome(c).ok
             THEN /\ outputText' = convertOutcome(c).output
                  /\ toasts' = addToast(toasts, "converted", "success")
             ELSE /\ toasts' = addToast(toasts, "unknown error", "error")
                  /\ UNCHANGED outputText
    /\ UNCHANGED <<inputText, patches, config, hasInitialized, localStorage,
                   OpenCC, converterModule, sync>>
    /\ UNCHANGED fvars

\* The input textarea's onChange, and the clear button
EditInput ==
    /\ hasInitialized
    /\ \E t \in InputTexts : inputText' = t
    /\ UNCHANGED <<outputText, patches, config, toasts, hasInitialized, localStorage,
                   OpenCC, converterModule, pending, sync>>
    /\ UNCHANGED fvars

\* The rule textarea's onChange
EditPatches ==
    /\ hasInitialized
    /\ \E p \in PatchTexts : patches' = JsString(p)
    /\ UNCHANGED <<inputText, outputText, config, toasts, hasInitialized, localStorage,
                   OpenCC, converterModule, pending, sync>>
    /\ UNCHANGED fvars

\* The script of the OpenCC library finishes loading
LoadOpenCC ==
    /\ ~OpenCC
    /\ OpenCC' = TRUE
    /\ UNCHANGED <<inputText, outputText, patches, config, toasts, hasInitialized,
                   localStorage, converterModule, pending, sync>>
    /\ UNCHANGED fvars

\* A notice is removed: its timer of 3 s, or its close button
RemoveToast ==
    /\ \E i \in 1..Len(toasts) :
          toasts' = SubSeq(toasts, 1, i - 1) \o SubSeq(toasts, i + 1, Len(toasts))
    /\ UNCHANGED <<inputText, outputText, patches, config, hasInitialized, localStorage,
                   OpenCC, converterModule, pending, sync>>
    /\ UNCHANGED fvars

Next ==
    \/ Initialise
    \/ ManualDownload
    \/ FetchSettles
    \/ TextArrives
    \/ TextFails
    \/ ConvertStart
    \/ ConvertFinish
    \/ EditInput
    \/ EditPatches
    \/ LoadOpenCC
    \/ RemoveToast

Spec == Init /\ [][Next]_vars

(***************************************************************************)
(* SpecParse: parsePatches applied to every raw rule text of RawTexts.     *)
(***************************************************************************)
RawAlphabet == {"a", "b", "=", " ", "\n"}

\* Raw rule texts longer than MaxRawLen that the properties name.
ExampleRaws ==
    { Chars("a=b=c"),
      Chars("a = x = y\nbb=z"),
      Chars("a=x\nb=y\nab=z") }

RawTexts == SeqsUpTo(RawAlphabet, MaxRawLen) \cup ExampleRaws

InitParse ==
    /\ AppIdle
    /\ patchStr \in RawTexts
    /\ text = <<>>
    /\ patchRules = <<>>
    /\ result = <<>>
    /\ result2 = <<>>
    /\ fpc = "start"

\* const rules = parsePatches(patchStr)
ParseStep ==
    /\ fpc = "start"
    /\ patchRules' = parsePatches(patchStr)
    /\ fpc' = "parsed"
    /\ UNCHANGED <<patchStr, text, result, result2>>
    /\ UNCHANGED avars

NextParse == ParseStep

SpecParse == InitParse /\ [][NextParse]_vars

(***************************************************************************)
(* C1                                                                      *)
(***************************************************************************)
\* The number of '=' in a line
countEq(line) == Cardinality({i \in 1..Len(line) : line[i] = "="})

firstEq(line) == CHOOSE j \in 1..Len(line) :
                     line[j] = "=" /\ \A k \in 1..(j - 1) : line[k] # "="

\* The rule the claim gives a line: cut at the first '=' only.
ruleAtFirstEq(line) ==
    [old    |-> trim(SubSeq(line, 1, firstEq(line) - 1)),
     newVal |-> trim(SubSeq(line, firstEq(line) + 1, Len(line)))]

MultiEqLines(str) ==
    {line \in {split(str, "\n")[i] : i \in 1..Len(split(str, "\n"))} :
        countEq(line) > 1 /\ ruleAtFirstEq(line).old # <<>>}

\* C1: for every rule line containing more than one '=', parsePatches cuts
\* at the first '=' only: the rule of that line has old = the trimmed text
\* before the first '=' and newVal = the trimmed text of everything after
\* it, further '=' kept ('a=b=c' yields old 'a', newVal 'b=c').
C1_SplitAtFirstEqOnly ==
    fpc = "parsed" =>
        \A line \in MultiEqLines(patchStr) :
            \E i \in 1..Len(patchRules) : patchRules[i] = ruleAtFirstEq(line)

(***************************************************************************)
(* C3                                                                      *)
(***************************************************************************)
OldLengths(rules) == {Len(rules[i].old) : i \in 1..Len(rules)}

ofLength(rules, n) == SelectSeq(rules, LAMBDA r : Len(r.old) = n)

\* C3: the list returned by parsePatches is ordered by non-increasing
\* old.length, and rules whose old have equal length keep the relative
\* order of their lines in the raw text (stable sort).
C3_SortedDescendingStable ==
    fpc = "parsed" =>
        /\ \A i \in 1..(Len(patchRules) - 1) :
               Len(patchRules[i].old) >= Len(patchRules[i + 1].old)
        /\ Len(patchRules) = Len(parseLines(patchStr))
        /\ \A n \in OldLengths(parseLines(patchStr)) :
               ofLength(patchRules, n) = ofLength(parseLines(patchStr), n)

\* A parse in which the sort moved a rule and two different rules of equal
\* old.length were kept in line order.
C3_Witness ==
    /\ fpc = "parsed"
    /\ patchRules # parseLines(patchStr)
    /\ \E i, j \in 1..Len(patchRules) :
          /\ i < j
          /\ Len(patchRules[i].old) = Len(patchRules[j].old)
          /\ patchRules[i] # patchRules[j]

(***************************************************************************)
(* SpecApply: applyCustomPatches applied, and applied again, to every text *)
(* of Texts under every rule list of RuleLists.                            *)
(***************************************************************************)
Texts == SeqsUpTo({"A", "B"}, MaxTextLen)

Olds == (SeqsUpTo({"A", "B"}, MaxOldLen) \ {<<>>}) \cup {Chars("."), Chars("A.")}

\* The newVal with a '$' in them
DollarNewVals ==
    { Chars("$&"), Chars("$$"), Chars("$1"), Chars("$'"), Chars("$"),
      <<"$", Backtick>>, Chars("A$&B") }

NewVals == SeqsUpTo({"A", "B", "C"}, MaxNewLen) \cup DollarNewVals

Rules == [old : Olds, newVal : NewVals]

\* The rules the lists of two rules are made of
PairRules ==
    [old : {Chars("A"), Chars("B"), Chars("AB"), Chars("BA")},
     newVal : {<<>>, Chars("A"), Chars("B"), Chars("BA"), Chars("CC")}]

RuleLists ==
    {<<>>} \cup {<<r>> : r \in Rules} \cup {<<r, q>> : r \in PairRules, q \in PairRules}

InitApply ==
    /\ AppIdle
    /\ patchStr = <<>>
    /\ text \in Texts
    /\ patchRules \in RuleLists
    /\ result = <<>>
    /\ result2 = <<>>
    /\ fpc = "start"

\* result = applyCustomPatches(text, patchRules)
ApplyStep ==
    /\ fpc = "start"
    /\ result' = applyCustomPatches(text, patchRules)
    /\ fpc' = "applied"
    /\ UNCHANGED <<patchStr, text, patchRules, result2>>
    /\ UNCHANGED avars

\* result2 = applyCustomPatches(result, patchRules)
ApplyAgainStep ==
    /\ fpc = "applied"
    /\ result2' = applyCustomPatches(result, patchRules)
    /\ fpc' = "twice"
    /\ UNCHANGED <<patchStr, text, patchRules, result>>
    /\ UNCHANGED avars

NextApply == ApplyStep \/ ApplyAgainStep

SpecApply == InitApply /\ [][NextApply]_vars

\* SpecApplyLiteral: SpecApply for the rule lists without a '$' in a newVal.
InitApplyLiteral ==
    /\ InitApply
    /\ \A i \in 1..Len(patchRules) : ~includes(patchRules[i].newVal, "$")

SpecApplyLiteral == InitApplyLiteral /\ [][NextApply]_vars

(***************************************************************************)
(* C2                                                                      *)
(***************************************************************************)
RECURSIVE literalReplaceFrom(_, _, _, _)
\* str from position i on, every non-overlapping occurrence of old
\* (scanned left to right) replaced by newVal character for character.
literalReplaceFrom(str, old, newVal, i) ==
    IF i > Len(str) THEN <<>>
    ELSE IF OccursAt(str, old, i)
         THEN newVal \o literalReplaceFrom(str, old, newVal, i + Len(old))
         ELSE <<str[i]>> \o literalReplaceFrom(str, old, newVal, i + 1)

\* C2: applyCustomPatches with a single rule returns the text in which
\* every non-overlapping occurrence of old is replaced by newVal verbatim,
\* for every newVal, one with '$' sequences included.
C2_ReplacesVerbatim ==
    (fpc = "applied" /\ Len(patchRules) = 1) =>
        result = literalReplaceFrom(text, patchRules[1].old, patchRules[1].newVal, 1)

(***************************************************************************)
(* C4                                                                      *)
(***************************************************************************)
\* No rule's newVal contains any rule's old as a substring.
NoNewValContainsAnOld(rules) ==
    \A i, j \in 1..Len(rules) : ~Contains(rules[i].newVal, rules[j].old)

\* No rule's old occurs in str.
NoOldOccursIn(str, rules) ==
    \A i \in 1..Len(rules) : ~Contains(str, rules[i].old)

\* C4 as stated: for every text and every rule list in which no rule's
\* newVal contains any rule's old, applying the rules to the result of
\* applying them gives that result again.
C4_IdempotentWhenNoNewValContainsOld ==
    (fpc = "twice" /\ NoNewValContainsAnOld(patchRules)) => result2 = result

\* C4 as amended: for every text and every rule list in which no rule's
\* newVal contains any rule's old and in which, besides, no rule's old
\* occurs in applyCustomPatches(text, rules), applying the rules to that
\* result gives the result again.
C4_IdempotentWhenNoOldIsLeft ==
    (fpc = "twice" /\ NoNewValContainsAnOld(patchRules)
                   /\ NoOldOccursIn(result, patchRules)) => result2 = result

\* Two rules that both rewrote the text and left no old behind.
C4_Witness ==
    /\ fpc = "twice"
    /\ Len(patchRules) = 2
    /\ NoNewValContainsAnOld(patchRules)
    /\ NoOldOccursIn(result, patchRules)
    /\ applyCustomPatches(text, <<patchRules[1]>>) # text
    /\ result # applyCustomPatches(text, <<patchRules[1]>>)
    /\ result2 = result

(***************************************************************************)
(* C5                                                                      *)
(***************************************************************************)
ChainRules ==
    <<[old |-> Chars("AB"), newVal |-> Chars("BA")],
      [old |-> Chars("BA"), newVal |-> Chars("CC")]>>

\* C5: applyCustomPatches applies the rules in list order, each over the
\* output of the one before: the result is the result of the first rule
\* alone, rewritten by the rest of the list; rules AB -> BA, BA -> CC on
\* 'AB' give 'CC'; an empty list returns the text unchanged.
C5_ChainedInListOrder ==
    fpc = "applied" =>
        /\ Len(patchRules) = 0 => result = text
        /\ Len(patchRules) > 0 =>
              result = applyCustomPatches(applyCustomPatches(text, <<patchRules[1]>>),
                                          Tail(patchRules))
        /\ (patchRules = ChainRules /\ text = Chars("AB")) => result = Chars("CC")

\* The chained example: the second rule rewrote what the first produced.
C5_Witness ==
    /\ fpc = "applied"
    /\ patchRules = ChainRules
    /\ text = Chars("AB")
    /\ result = Chars("CC")

(***************************************************************************)
(* SpecConvert: line 135 of handleConvert, applyCustomPatches(result,      *)
(* parsePatches(patches)), for every raw rule text of two rules.           *)
(***************************************************************************)
RuleLines ==
    {r.old \o <<"=">> \o r.newVal :
        r \in [old : SeqsUpTo({"A", "B"}, MaxOldLen) \ {<<>>},
               newVal : {<<>>, Chars("A"), Chars("C"), Chars("BA"), Chars("CC")}]}

\* The example of the specification, with P Q R S for the four characters
\* of the longer old, P X for the newVal of the rule of P Q, W X Y Z for
\* the newVal of the rule of P Q R S, and I J for the text before it.
ExampleShortRule == Chars("PQ=PX")
ExampleLongRule  == Chars("PQRS=WXYZ")
ExampleText      == Chars("IJPQRS")

TwoRuleRaws ==
    {Join(<<l1, l2>>, "\n") : l1 \in RuleLines, l2 \in RuleLines}
    \cup {Join(<<ExampleShortRule, ExampleLongRule>>, "\n"),
          Join(<<ExampleLongRule, ExampleShortRule>>, "\n")}

InitConvert ==
    /\ AppIdle
    /\ patchStr \in TwoRuleRaws
    /\ text \in Texts \cup {ExampleText}
    /\ patchRules = <<>>
    /\ result = <<>>
    /\ result2 = <<>>
    /\ fpc = "start"

\* result = applyCustomPatches(result, parsePatches(patches))
ParseAndApplyStep ==
    /\ fpc = "start"
    /\ patchRules' = parsePatches(patchStr)
    /\ result' = applyCustomPatches(text, parsePatches(patchStr))
    /\ fpc' = "applied"
    /\ UNCHANGED <<patchStr, text, result2>>
    /\ UNCHANGED avars

NextConvert == ParseAndApplyStep

SpecConvert == InitConvert /\ [][NextConvert]_vars

(***************************************************************************)
(* C6                                                                      *)
(***************************************************************************)
\* old is a proper substring of longer
ProperSubstring(old, longer) == Len(old) < Len(longer) /\ Contains(longer, old)

\* C6: for a raw rule text of two rules where one old is a proper
\* substring of the other, the result is the text rewritten by the rule of
\* the longer old and then by the rule of the shorter old, whatever the
\* order of the two lines; the rules of the example give W X Y Z after I J
\* and not P X R S.
C6_LongestOldFirst ==
    fpc = "applied" =>
        LET lines == parseLines(patchStr)
        IN  /\ \A i, j \in 1..Len(lines) :
                  (Len(lines) = 2 /\ ProperSubstring(lines[i].old, lines[j].old)) =>
                      result = applyRule(applyRule(text, lines[j]), lines[i])
            /\ (text = ExampleText /\ ExampleLongRule \in {split(patchStr, "\n")[k] :
                                          k \in 1..Len(split(patchStr, "\n"))}) =>
                  result = Chars("IJWXYZ")

\* The example with the line of the shorter old first: the sort moved the
\* longer old to the front, and the line order would have given P X R S.
C6_Witness ==
    /\ fpc = "applied"
    /\ patchStr = Join(<<ExampleShortRule, ExampleLongRule>>, "\n")
    /\ text = ExampleText
    /\ ProperSubstring(parseLines(patchStr)[1].old, parseLines(patchStr)[2].old)
    /\ applyCustomPatches(text, parseLines(patchStr)) = Chars("IJPXRS")
    /\ result = Chars("IJWXYZ")

(***************************************************************************)
(* C7                                                                      *)
(***************************************************************************)
\* The rule text the claim gives a body: the value of the field 'patches'
\* when the body is a JSON document that has the field, the body otherwise.
ruleTextOfBody(body) ==
    IF JSONparse(body).ok /\ hasProperty(JSONparse(body).v, Chars("patches"))
    THEN getProperty(JSONparse(body).v, Chars("patches")).v
    ELSE JsString(body)

\* C7: after a successful fetch whose body is a JSON document with a field
\* 'patches', the raw rule text is exactly that field's value (the empty
\* string included); for every other body it is the body unchanged.
C7_PatchesFieldBecomesRuleText ==
    [][(sync.phase = "reading" /\ sync'.phase = "succeeded")
          => patches' = ruleTextOfBody(sync'.text)]_vars

(***************************************************************************)
(* C8                                                                      *)
(***************************************************************************)
\* C8: when the global OpenCC is absent at call time, convertText of a
\* non-empty text is fulfilled with the text unchanged, in whichever of the
\* two converter modules the App imports.
C8_EngineAbsentPassesThrough ==
    \A c \in pending :
        (~c.engine /\ c.inputText # <<>>) => c.converted = Fulfilled(c.inputText)

(***************************************************************************)
(* C9                                                                      *)
(***************************************************************************)
\* A step in which await fetch(url) gave a response that is not ok, or threw
FetchFailedStep ==
    sync.phase = "fetching" /\ sync'.response \in {"notOk", "threw"}

\* C9 as stated: every such invocation, the silent one of the start
\* included, ends in a failure that is reported (an error notice), and the
\* raw rule text is left unchanged.
C9_FailureReportedAlways ==
    [][FetchFailedStep =>
          /\ sync'.phase = "failed"
          /\ patches' = patches
          /\ toasts' = Append(toasts, Toast("error", "cloud download failed"))]_vars

\* C9 as amended: every such invocation ends in the catch block and leaves
\* the raw rule text unchanged (only a call whose response was ok writes
\* it); the error notice is added when the call is not silent, and the
\* silent call of the start adds none.
C9_FailureKeepsRuleText ==
    [][/\ FetchFailedStep =>
             /\ sync'.phase = "failed"
             /\ patches' = patches
             /\ ~sync.silent =>
                   toasts' = Append(toasts, Toast("error", "cloud download failed"))
             /\ sync.silent => toasts' = toasts
       /\ (sync.phase = "reading" /\ sync'.phase = "succeeded") => sync.response = "ok"
      ]_vars

\* The fetch of the start got a response that is not ok: the rule text read
\* from localStorage is still there and no notice is shown.
C9_Witness ==
    /\ sync.phase = "failed"
    /\ sync.response = "notOk"
    /\ sync.silent
    /\ patches = localStorage.dream_cloud_patches
    /\ patches.s # <<>>
    /\ toasts = <<>>

(***************************************************************************)
(* C10                                                                     *)
(***************************************************************************)
\* C10: whatever the body of a successful response, the raw rule text
\* stored is a string, and a conversion that parses and applies it (its
\* convertText fulfilled) ends with the success notice and not in the
\* catch block.
C10_NoBodyCausesHardFailure ==
    [][/\ (sync.phase = "reading" /\ sync'.phase = "succeeded") => patches'.t = "string"
       /\ \A c \in pending :
             (c \notin pending' /\ c.converted.ok) =>
                 toasts' = Append(toasts, Toast("success", "converted"))
      ]_vars

(***************************************************************************)
(* SpecEscape: one literal string s, escaped, compiled and used as a       *)
(* global pattern on one subject text.                                     *)
(***************************************************************************)
\* A character that is in no literal and in no subject: the replacement
\* that marks what the pattern matched.
MatchMark == <<"#">>

\* The literal strings: every special character alone, every string of
\* EscapeAlphabet, and strings in which a quantifier or a dot follows a
\* character.
EscapeAlphabet == {"a", ".", "*", "\\"}

ExampleLiteral == Chars("a.b*c")

Literals ==
    {<<c>> : c \in SpecialChars}
    \cup (SeqsUpTo(EscapeAlphabet, MaxOldLen) \ {<<>>})
    \cup {Chars("a+"), Chars("a?"), Chars("^a"), Chars("a$"), Chars("(a)"),
          Chars("[a]"), Chars("a|X"), Chars("a{1}"), Chars("\\."), Chars("$&")}
    \cup {ExampleLiteral}

\* The characters of a string
charsOf(s) == {s[i] : i \in 1..Len(s)}

\* The subjects a literal is tried on: every text over its own characters,
\* 'a' and 'X'; the example's literal is tried on the texts of the example.
SubjectsOf(s) ==
    IF s = ExampleLiteral
    THEN {Chars("a.b*c"), Chars("aXbYc"), Chars("aXbc"), Chars("aXc"),
          Chars("Xa.b*ca.b*c")}
    ELSE SeqsUpTo(charsOf(s) \cup {"a", "X"}, MaxTextLen)

InitEscape ==
    /\ AppIdle
    /\ patchStr \in Literals
    /\ text \in SubjectsOf(patchStr)
    /\ patchRules = <<>>
    /\ result = <<>>
    /\ result2 = <<>>
    /\ fpc = "start"

\* result = text.replace(new RegExp(escapeRegExp(s), 'g'), '#')
EscapeStep ==
    /\ fpc = "start"
    /\ result' = applyRule(text, [old |-> patchStr, newVal |-> MatchMark])
    /\ fpc' = "escaped"
    /\ UNCHANGED <<patchStr, text, patchRules, result2>>
    /\ UNCHANGED avars

NextEscape == EscapeStep

SpecEscape == InitEscape /\ [][NextEscape]_vars

(***************************************************************************)
(* C11                                                                     *)
(***************************************************************************)
\* C11: for every non-empty s, the pattern escapeRegExp(s) matches at a
\* position of a text exactly when the literal s occurs there, the match
\* is s itself, and the global replace with that pattern replaces the
\* occurrences of s (left to right, not overlapping) and nothing else.
C11_EscapedPatternMatchesLiteralOnly ==
    fpc = "escaped" =>
        /\ \A i \in 1..(Len(text) + 1) :
              matchHere(compile(escapeRegExp(patchStr)), text, i)
                  = (IF OccursAt(text, patchStr, i) THEN i + Len(patchStr) ELSE 0)
        /\ result = literalReplaceFrom(text, patchStr, MatchMark, 1)

\* The literal '.' on a text with two dots and two other characters: the
\* dots are matched, the other characters are not.
C11_Witness ==
    /\ fpc = "escaped"
    /\ patchStr = Chars(".")
    /\ text = Chars("a.X.")
    /\ result = Chars("a#X#")

(***************************************************************************)
(* C12                                                                     *)
(***************************************************************************)
\* C12: the manual download uses the gasUrl of the configuration: with a
\* non-empty gasUrl configured it starts one fetch of that URL and shows
\* no notice; the notice that no URL is configured, with no fetch, is what
\* it does only when no gasUrl is configured.
C12_ManualDownloadFetchesConfiguredUrl ==
    [][ManualDownload =>
          IF truthy(config.gasUrl)
          THEN /\ sync'.phase = "fetching"
               /\ sync'.url = config.gasUrl.s
               /\ toasts' = toasts
          ELSE /\ sync' = sync
               /\ toasts' = addToast(toasts, "no cloud url configured", "info")
      ]_vars

(***************************************************************************)
(* C13                                                                     *)
(***************************************************************************)
\* C13: a conversion holds the input and the raw rule text of the moment
\* it was started; whatever happens to the rule text while it is suspended
\* in convertText (a fetch completes, the user edits), the output it
\* produces is applyCustomPatches(convertText(input), parsePatches(rule
\* text at start)), and neither starting nor finishing a conversion changes
\* the raw rule text.
C13_ConversionUsesSnapshot ==
    [][/\ \A c \in pending' \ pending :
             /\ c.inputText = inputText
             /\ c.patches = patches
             /\ c.converted = convertText(converterModule, inputText, c.type, OpenCC)
       /\ \A c \in pending \ pending' :
             toasts' = addToast(toasts, "converted", "success") =>
                 /\ c.converted.ok
                 /\ c.patches.t = "string"
                 /\ outputText' = applyCustomPatches(c.converted.value,
                                                     parsePatches(c.patches.s))
       /\ pending' # pending => patches' = patches
      ]_vars

\* A conversion is suspended in convertText with the rule text read from
\* localStorage, and the silent fetch of the initialisation has completed
\* since and put another rule text, under which the output would differ.
C13_Witness ==
    /\ sync.phase = "succeeded"
    /\ patches = JsString(Chars("x=y"))
    /\ \E c \in pending :
          /\ c.patches = JsString(Chars("x=z"))
          /\ c.converted.ok
          /\ applyCustomPatches(c.converted.value, parsePatches(c.patches.s))
                # applyCustomPatches(c.converted.value, parsePatches(patches.s))

=============================================================================
